---- MODULE Spec2Model ----
(***************************************************************************)
(* Model of the Arludent AI microservice:                                  *)
(*   - the session store and the process_message orchestration of          *)
(*     app/services/agent_service.py (AgentService, ConversationSession),  *)
(*   - the tool catalog of app/tools/backend_tools.py as seen by the       *)
(*     AgentExecutor loop configured in AgentService._create_agent,        *)
(*   - the follow-up analysis pipeline of app/api/seguimiento.py and       *)
(*     app/services/openai_service.py.                                     *)
(*                                                                         *)
(* Python object identity is kept: the store maps a session id to an       *)
(* object reference (an index into heap), so that a task suspended at an   *)
(* await keeps the ConversationSession object it resolved even when the    *)
(* store entry is deleted meanwhile.  Code between two awaits runs         *)
(* atomically (one asyncio event loop), so every action is the code from   *)
(* one suspension point to the next.                                       *)
(***************************************************************************)
EXTENDS Integers, Sequences, FiniteSets, TLC

VARIABLES
    sessions,   \* AgentService.sessions: session id -> object reference
    heap,       \* the ConversationSession objects ever constructed
    uuids,      \* how many ids generate_session_id() has produced
    returned,   \* session ids handed back to callers by process_message
    calls,      \* the process_message tasks, one record per task slot
    requests,   \* the Backend Gateway requests in flight
    op,         \* the last synchronous store operation and its outcome
    nops,       \* number of operations started (bounds the exploration)
    nfail,      \* number of provider failures injected (bounds the exploration)
    an          \* the follow-up analysis request being served

vars == <<sessions, heap, uuids, returned, calls, requests, op, nops, nfail, an>>

agentVars == <<sessions, heap, uuids, returned, calls, requests, op, nops, nfail>>

----------------------------------------------------------------------------
(* Bounds of the exploration *)

\* operations started in the concurrent specification
MaxOps == 2
\* tool rounds one call may take in the concurrent specification
MaxToolRounds == 1
\* calls made one after the other in the memory-window specification
MemMaxCalls == 22
\* provider failures injected in the memory-window specification
MemMaxFail == 1
\* calls made one after the other in the single-caller specification
SeqMaxCalls == 2
\* operations made one after the other in the store specification
StoreMaxOps == 3
\* requests made in the chat-endpoint specification
ChatMaxCalls == 2
\* calls made in the tool-catalog specification
ToolMaxCalls == 1
\* tool rounds of one call in the tool-catalog specification
ToolMaxRounds == 2

(* Program constants *)

\* Settings.AGENT_MAX_ITERATIONS
AGENT_MAX_ITERATIONS == 10
\* Settings.CONVERSATION_HISTORY_LIMIT
CONVERSATION_HISTORY_LIMIT == 20

----------------------------------------------------------------------------
(* Values *)

\* Python None, as a session id and as a user id
None == <<"None", 0>>
\* the string "" (a supplied but falsy session id)
EmptyStr == <<"str", 0>>
\* session id strings a caller makes up itself
CallerStrs == {<<"str", 1>>}
\* the n-th value of uuid.uuid4()
Uuid(n) == <<"uuid", n>>

\* Python truthiness of an Optional[str]: `not session_id`
Falsy(sid) == sid \in {None, EmptyStr}

\* user ids: 0 stands for None (both are falsy in `if user_id:`)
UserIds == {0, 1}

\* message texts of users and final answers of the LLM
UserMsgs == {"hola"}
LLMTexts == {"respuesta"}

ROLE_USER == "user"
ROLE_ASSISTANT == "assistant"
ROLE_SYSTEM == "system"

\* reply of process_message's except branch
ErrorText == "Lo siento, ocurrió un error al procesar tu mensaje. Por favor, intenta de nuevo."
\* default of response.get("output", ...)
DefaultText == "Lo siento, no pude procesar tu mensaje."
\* output of the AgentExecutor when max_iterations stops the loop
StoppedText == "Agent stopped due to iteration limit or time limit."

Min(a, b) == IF a < b THEN a ELSE b
Max(a, b) == IF a > b THEN a ELSE b

\* the last n elements of s (Python s[-n:] for n > 0)
LastN(s, n) == SubSeq(s, Max(1, Len(s) - n + 1), Len(s))

----------------------------------------------------------------------------
(* ConversationSession *)

\* ConversationSession.__init__
NewSession(session_id, user_id) ==
    [session_id |-> session_id, user_id |-> user_id,
     messages |-> <<>>, metadata |-> {},
     chat_memory |-> <<>>, k |-> CONVERSATION_HISTORY_LIMIT]

\* add_message without its elif branch (assistant messages are not remembered)
AddMessageUserOnly(s, role, content) ==
    [s EXCEPT !.messages = Append(@, [role |-> role, content |-> content]),
              !.chat_memory =
                  IF role = ROLE_USER
                  THEN Append(@, [type |-> "human", content |-> content])
                  ELSE @]

\* add_message feeding the chat memory without keeping the history
AddMessageMemoryOnly(s, role, content) ==
    [s EXCEPT !.chat_memory =
                  IF role = ROLE_USER
                  THEN Append(@, [type |-> "human", content |-> content])
                  ELSE IF role = ROLE_ASSISTANT
                  THEN Append(@, [type |-> "ai", content |-> content])
                  ELSE @]

\* add_message dropping a message whose role repeats the previous one's
AddMessageSkippingRepeatedRole(s, role, content) ==
    IF s.messages # <<>> /\ s.messages[Len(s.messages)].role = role
    THEN s
    ELSE [s EXCEPT !.messages = Append(@, [role |-> role, content |-> content]),
                   !.chat_memory =
                       IF role = ROLE_USER
                       THEN Append(@, [type |-> "human", content |-> content])
                       ELSE IF role = ROLE_ASSISTANT
                       THEN Append(@, [type |-> "ai", content |-> content])
                       ELSE @]

\* add_message keeping the newest message only
AddMessageKeepingLast(s, role, content) ==
    [s EXCEPT !.messages = <<[role |-> role, content |-> content]>>,
              !.chat_memory =
                  IF role = ROLE_USER
                  THEN Append(@, [type |-> "human", content |-> content])
                  ELSE IF role = ROLE_ASSISTANT
                  THEN Append(@, [type |-> "ai", content |-> content])
                  ELSE @]

\* ConversationSession.add_message: the history always grows, the chat
\* memory only for user and assistant messages
AddMessage(s, role, content) ==
    [s EXCEPT !.messages = Append(@, [role |-> role, content |-> content]),
              !.chat_memory =
                  IF role = ROLE_USER
                  THEN Append(@, [type |-> "human", content |-> content])
                  ELSE IF role = ROLE_ASSISTANT
                  THEN Append(@, [type |-> "ai", content |-> content])
                  ELSE @]

\* session.memory.load_memory_variables({})["chat_history"] of a
\* ConversationBufferWindowMemory(k): the last k exchanges, that is the
\* last 2*k messages of chat_memory (nothing when k = 0)
LoadMemory(s) ==
    IF s.k > 0 THEN LastN(s.chat_memory, 2 * s.k) ELSE <<>>

----------------------------------------------------------------------------
(* AgentService: the session store *)

NoSessions == [s \in {} |-> 0]

\* helpers.generate_session_id: str(uuid.uuid4()), a value never seen before
GenerateSessionId == Uuid(uuids + 1)

\* get_or_create_session rebuilding the store around the session it returns
GetOrCreateReplacing(session_id, user_id) ==
    LET gen == Falsy(session_id)
        sid == IF gen THEN GenerateSessionId ELSE session_id
        ref == Len(heap) + 1
    IN  [sessions |-> (sid :> ref),
         heap     |-> Append(heap, NewSession(sid, user_id)),
         uuids    |-> IF gen THEN uuids + 1 ELSE uuids,
         ref      |-> ref]

\* get_or_create_session stamping the caller's user_id on a session it finds
GetOrCreateAdoptingUser(session_id, user_id) ==
    LET gen == Falsy(session_id)
        sid == IF gen THEN GenerateSessionId ELSE session_id
        n   == IF gen THEN uuids + 1 ELSE uuids
        ref == Len(heap) + 1
    IN  IF sid \notin DOMAIN sessions
        THEN [sessions |-> sessions @@ (sid :> ref),
              heap     |-> Append(heap, NewSession(sid, user_id)),
              uuids    |-> n,
              ref      |-> ref]
        ELSE [sessions |-> sessions,
              heap     |-> [heap EXCEPT ![sessions[sid]].user_id = user_id],
              uuids    |-> n,
              ref      |-> sessions[sid]]

\* get_or_create_session handing the first session object to every new id
GetOrCreateSharingObject(session_id, user_id) ==
    LET gen == Falsy(session_id)
        sid == IF gen THEN GenerateSessionId ELSE session_id
        n   == IF gen THEN uuids + 1 ELSE uuids
        ref == Len(heap) + 1
    IN  IF sid \notin DOMAIN sessions
        THEN IF heap = <<>>
             THEN [sessions |-> sessions @@ (sid :> ref),
                   heap     |-> Append(heap, NewSession(sid, user_id)),
                   uuids    |-> n,
                   ref      |-> ref]
             ELSE [sessions |-> sessions @@ (sid :> 1), heap |-> heap,
                   uuids    |-> n, ref |-> 1]
        ELSE [sessions |-> sessions, heap |-> heap, uuids |-> n,
              ref      |-> sessions[sid]]

\* AgentService.get_or_create_session, as the store, the heap and the uuid
\* count it leaves, with the reference it returns
GetOrCreate(session_id, user_id) ==
    LET gen == Falsy(session_id)
        sid == IF gen THEN GenerateSessionId ELSE session_id
        n   == IF gen THEN uuids + 1 ELSE uuids
        ref == Len(heap) + 1
    IN  IF sid \notin DOMAIN sessions
        THEN [sessions |-> sessions @@ (sid :> ref),
              heap     |-> Append(heap, NewSession(sid, user_id)),
              uuids    |-> n,
              ref      |-> ref]
        ELSE [sessions |-> sessions, heap |-> heap, uuids |-> n,
              ref      |-> sessions[sid]]

\* AgentService.get_session_history
SessionHistory(session_id) ==
    IF session_id \in DOMAIN sessions
    THEN heap[sessions[session_id]].messages
    ELSE <<>>

\* clear_session emptying the whole store
ClearedStoreDroppingAll(session_id) ==
    IF session_id \in DOMAIN sessions THEN NoSessions ELSE sessions

\* AgentService.clear_session, as the store it leaves
ClearedStore(session_id) ==
    IF session_id \in DOMAIN sessions
    THEN [s \in DOMAIN sessions \ {session_id} |-> sessions[s]]
    ELSE sessions

\* AgentService.get_active_sessions_count
ActiveSessionsCount == Cardinality(DOMAIN sessions)

----------------------------------------------------------------------------
(* Tool catalog *)

\* backend_tools.get_all_tools: the names of the eleven tools
Catalog ==
    {"buscar_paciente", "consultar_citas", "consultar_historial_clinico",
     "consultar_disponibilidad_medico", "listar_medicos", "validar_medico",
     "determinar_tipo_usuario", "sugerir_horarios_alternativos",
     "registrar_cita", "confirmar_cita", "registrar_interaccion_ia"}

\* a tool name the LLM may invent
UnknownTool == "borrar_paciente"

\* tools whose args_schema has only Optional fields
AllOptional == {"buscar_paciente", "consultar_citas", "listar_medicos"}

\* argument sets the LLM may emit: "ok" has every field and the right
\* types, "empty" is {} (no field at all), "bad" has a field of the wrong
\* type
ArgKinds == {"ok", "empty", "bad"}

\* the pydantic input models (BuscarPacienteInput .. ValidarMedicoInput):
\* whether the schema of the tool accepts the arguments
SchemaAccepts(tool, args) ==
    \/ args = "ok"
    \/ args = "empty" /\ tool \in AllOptional

\* a tool declared without args_schema runs on whatever the LLM sends
ToolInputUnchecked(tool, args) == TRUE

\* `args_schema: Type[BaseModel] = <Input model>` on every tool: the tool
\* input is parsed with the schema before _arun is entered, and a rejected
\* input raises instead of running the tool

ToolInputAccepted(tool, args) == SchemaAccepts(tool, args)

\* whether _arun reaches a backend_client call with these arguments:
\* buscar_paciente and consultar_citas return early when no criterion is given
NeedsBackend(tool, args) ==
    ~(args = "empty" /\ tool \in {"buscar_paciente", "consultar_citas"})

\* what one BackendClient._make_request may end in: a 2xx body with
\* success and data, a 2xx body with success false, a 2xx body whose data
\* lacks the fields the tool reads, a non-2xx status, a transport failure,
\* a 2xx response whose body is not JSON
BackendOutcomes ==
    {"success", "success_false", "missing_keys", "status_error",
     "transport_error", "invalid_body"}

\* the two errors _make_request wraps (lines 73-78)
GatewayErrors == {"status_error", "transport_error"}

\* every outcome for which _make_request raises (lines 73-80)
RaisingOutcomes == GatewayErrors \cup {"invalid_body"}

\* BackendClient._make_request: the JSON body returned, or the exception
\* raised with what its message carries; response.json() failing on a 2xx
\* body is caught by the last handler and raised again as it is
MakeRequest(outcome) ==
    IF outcome = "no_request" THEN [kind |-> "none"]
    ELSE IF outcome = "status_error"
    THEN [kind |-> "raise", error |-> "backend_status",
          detail |-> {"status_code"}]
    ELSE IF outcome = "transport_error"
    THEN [kind |-> "raise", error |-> "backend_connection",
          detail |-> {"message"}]
    ELSE IF outcome = "invalid_body"
    THEN [kind |-> "raise", error |-> "JSONDecodeError",
          detail |-> {"message"}]
    ELSE [kind |-> "json", body |-> outcome]

\* tools that index the payload (data['...']) instead of using .get
IndexingTools ==
    {"determinar_tipo_usuario", "sugerir_horarios_alternativos",
     "registrar_cita", "confirmar_cita", "registrar_interaccion_ia"}

\* tools whose else branch reports "nothing found" with an information mark
InformingTools ==
    {"consultar_citas", "consultar_historial_clinico",
     "consultar_disponibilidad_medico", "listar_medicos"}

\* the mark that opens the text a tool returns; "no_request" is the early
\* return of buscar_paciente and consultar_citas when no criterion is given
ToolText(tool, outcome) ==
    IF outcome = "no_request" THEN "error"
    ELSE IF outcome \in RaisingOutcomes \/ (outcome = "missing_keys" /\ tool \in IndexingTools)
    THEN \* the except branch of _arun
         IF tool = "registrar_interaccion_ia" THEN "warning" ELSE "error"
    ELSE IF outcome = "success_false"
    THEN \* the else branch of `if result.get("success") and result.get("data")`
         IF tool = "registrar_interaccion_ia" THEN "warning"
         ELSE IF tool \in InformingTools THEN "info"
         ELSE "error"
    ELSE IF outcome = "missing_keys" /\ tool = "consultar_disponibilidad_medico"
    THEN \* no horarios_disponibles in data
         "info"
    ELSE "ok"

NoObservation == [kind |-> "none"]

\* _arun without its try/except: what is raised inside it leaves the tool
ToolRunUnguarded(tool, outcome) ==
    IF outcome \in RaisingOutcomes \/ (outcome = "missing_keys" /\ tool \in IndexingTools)
    THEN [kind |-> "raise", tool |-> tool, outcome |-> outcome,
          gateway |-> MakeRequest(outcome)]
    ELSE [kind |-> "text", tool |-> tool, outcome |-> outcome,
          gateway |-> MakeRequest(outcome),
          text |-> ToolText(tool, outcome)]

\* one execution of a tool's _arun: whatever happens inside the try block,
\* a text is returned
ToolRun(tool, outcome) ==
    [kind |-> "text", tool |-> tool, outcome |-> outcome,
     gateway |-> MakeRequest(outcome),
     text |-> ToolText(tool, outcome)]

\* the executor's answer to a tool name it does not have
InvalidToolObservation(tool) ==
    [kind |-> "text", tool |-> tool, outcome |-> "no_request",
     gateway |-> MakeRequest("no_request"),
     text |-> "invalid_tool"]

\* an executor that runs whatever name the LLM gives
AnyToolKnown(tool) == TRUE

\* AgentExecutor(tools=self.tools): the executor looks the requested name up
\* among the tools it was given
ToolKnown(tool) == tool \in Catalog

----------------------------------------------------------------------------
(* AgentService.process_message, one task per slot *)

Slots == {1, 2}

NoResult == [kind |-> "none"]

IdleCall ==
    [pc |-> "idle", message |-> "", session_id |-> None, user_id |-> 0,
     session |-> 0, agent_input |-> <<>>, iterations |-> 0, rounds |-> 0,
     pending |-> <<>>, raised |-> "none", backend_failed |-> FALSE,
     stopped |-> FALSE, result |-> NoResult, http |-> 0,
     observation |-> NoObservation]

\* what a caller may pass as user_context
UserContexts == {"none", "ctx"}

\* lines 345-350: the input with the user-id tag and the context dump
InputMessage(message, user_id, user_context) ==
    [context |-> IF user_context # "none" THEN user_context ELSE "none",
     user_tag |-> IF user_id # 0 THEN user_id ELSE 0,
     text |-> message]

\* response.get("output", <default>)
ResponseText(response) ==
    IF "output" \in DOMAIN response THEN response.output ELSE DefaultText

\* endpoints.chat: ChatResponse(message=..., session_id=...) needs two
\* strings; anything raised becomes HTTPException(500)
ChatStatus(result) ==
    IF result.kind = "return" /\ result.session_id # None THEN 200 ELSE 500

\* process_message without its try/except: the exception reaches the caller
ExceptReraise(c, e) ==
    [calls[c] EXCEPT !.pc = "done", !.raised = e,
                     !.result = [kind |-> "raise", error |-> e],
                     !.http = ChatStatus([kind |-> "raise", error |-> e])]

\* the except branch of process_message (lines 382-390)
ExceptResult(c, e) ==
    LET sid == calls[c].session_id
        res == [kind |-> "return", message |-> ErrorText,
                session_id |-> IF Falsy(sid) THEN GenerateSessionId ELSE sid,
                metadata |-> [error |-> e]]
    IN  [calls[c] EXCEPT !.pc = "done", !.raised = e, !.result = res,
                         !.http = ChatStatus(res)]

\* a cap that lets one round too many through
ShouldContinueOffByOne(iterations) == iterations <= AGENT_MAX_ITERATIONS

\* AgentExecutor(max_iterations=settings.AGENT_MAX_ITERATIONS): another LLM
\* round only while fewer than max_iterations tool rounds were made

ShouldContinue(iterations) == iterations < AGENT_MAX_ITERATIONS

\* lines 362-380 run on the executor's response: the assistant message is
\* appended to the session object the task holds, and the result is built
Respond(c, call, response) ==
    LET text == ResponseText(response)
        s    == AddMessage(heap[call.session], ROLE_ASSISTANT, text)
        res  == [kind |-> "return", message |-> text,
                 session_id |-> s.session_id,
                 metadata |-> [message_count |-> Len(s.messages),
                               user_id |-> call.user_id]]
    IN  /\ heap' = [heap EXCEPT ![call.session] = s]
        /\ calls' = [calls EXCEPT ![c] =
                        [call EXCEPT !.pc = "done", !.result = res,
                                     !.pending = <<>>,
                                     !.http = ChatStatus(res)]]
        /\ returned' = returned \cup {res.session_id}
        /\ UNCHANGED uuids

\* an except branch that takes the call's user message back
FailRollingBack(c, e) ==
    LET call == ExceptResult(c, e)
        s    == heap[calls[c].session]
    IN  /\ calls' = [calls EXCEPT ![c] =
                        [call EXCEPT !.pending = <<>>,
                                     !.observation = NoObservation]]
        /\ uuids' = IF Falsy(calls[c].session_id) THEN uuids + 1 ELSE uuids
        /\ returned' = returned \cup {call.result.session_id}
        /\ heap' = [heap EXCEPT ![calls[c].session] =
                       [s EXCEPT !.messages = SubSeq(@, 1, Len(@) - 1),
                                 !.chat_memory = SubSeq(@, 1, Len(@) - 1)]]

\* the except branch taken: the error result, with a fresh id when the
\* caller supplied none
Fail(c, e) ==
    LET call == ExceptResult(c, e)
        gave == call.result.kind = "return"
    IN  /\ calls' = [calls EXCEPT ![c] =
                        [call EXCEPT !.pending = <<>>,
                                     !.observation = NoObservation]]
        /\ uuids' = IF gave /\ Falsy(calls[c].session_id)
                    THEN uuids + 1 ELSE uuids
        /\ returned' = IF gave THEN returned \cup {call.result.session_id}
                       ELSE returned
        /\ UNCHANGED heap

\* the executor after a tool round that gave the observation obs:
\* iterations += 1, then either the next LLM round or the forced stop with
\* its fixed output
AfterToolRound(c, failed, obs) ==
    LET n    == calls[c].iterations + 1
        call == [calls[c] EXCEPT !.iterations = n, !.pending = <<>>,
                                 !.backend_failed = @ \/ failed,
                                 !.observation = obs]
    IN  IF ShouldContinue(n)
        THEN /\ calls' = [calls EXCEPT ![c] =
                            [call EXCEPT !.pc = "llm", !.rounds = @ + 1]]
             /\ UNCHANGED <<heap, uuids, returned>>
        ELSE Respond(c, [call EXCEPT !.stopped = TRUE],
                     [output |-> StoppedText])

(* The actions *)

\* process_message up to its first suspension (lines 331-360): resolve the
\* session, append the user message, build the agent input, enter the loop
Start(c, message, session_id, user_id, user_context) ==
    /\ calls[c].pc = "idle"
    /\ LET g    == GetOrCreate(session_id, user_id)
           s    == AddMessage(g.heap[g.ref], ROLE_USER, message)
           call == [IdleCall EXCEPT
                       !.message = message, !.session_id = session_id,
                       !.user_id = user_id, !.session = g.ref,
                       !.agent_input =
                           [input |-> InputMessage(message, user_id, user_context),
                            chat_history |-> LoadMemory(s)]]
       IN  /\ sessions' = g.sessions
           /\ uuids' = g.uuids
           /\ IF ShouldContinue(0)
              THEN /\ heap' = [g.heap EXCEPT ![g.ref] = s]
                   /\ calls' = [calls EXCEPT ![c] =
                                   [call EXCEPT !.pc = "llm", !.rounds = 1]]
                   /\ UNCHANGED returned
              ELSE LET t   == AddMessage(s, ROLE_ASSISTANT, StoppedText)
                       res == [kind |-> "return", message |-> StoppedText,
                               session_id |-> t.session_id,
                               metadata |-> [message_count |-> Len(t.messages),
                                             user_id |-> user_id]]
                   IN  /\ heap' = [g.heap EXCEPT ![g.ref] = t]
                       /\ calls' = [calls EXCEPT ![c] =
                              [call EXCEPT !.pc = "done", !.stopped = TRUE,
                                           !.result = res,
                                           !.http = ChatStatus(res)]]
                       /\ returned' = returned \cup {res.session_id}
    /\ op' = [name |-> "process_message", session_id |-> session_id,
              user_id |-> user_id]
    /\ nops' = nops + 1
    /\ UNCHANGED <<requests, nfail, an>>

\* the LLM answers with plain text: the loop ends and the reply is recorded
LLMFinish(c, text) ==
    /\ calls[c].pc = "llm"
    /\ Respond(c, [calls[c] EXCEPT !.observation = NoObservation],
               [output |-> text])
    /\ UNCHANGED <<sessions, requests, op, nops, nfail, an>>

\* the LLM provider call raises: caught at line 382
LLMRaise(c) ==
    /\ calls[c].pc = "llm"
    /\ Fail(c, "llm_error")
    /\ UNCHANGED <<sessions, requests, op, nops, an>>

\* the LLM answers with a tool invocation (one per round)
LLMToolCall(c, tool, args) ==
    /\ calls[c].pc = "llm"
    /\ IF ~ToolKnown(tool)
       THEN \* no such tool: the executor feeds an "is not a valid tool" text back
            /\ AfterToolRound(c, FALSE, InvalidToolObservation(tool))
            /\ UNCHANGED requests
       ELSE IF ~ToolInputAccepted(tool, args)
       THEN \* the validation error leaves the executor and reaches line 382
            /\ Fail(c, "validation_error")
            /\ UNCHANGED requests
       ELSE IF NeedsBackend(tool, args)
       THEN \* _arun awaits backend_client
            /\ requests' = requests \cup {[slot |-> c, tool |-> tool, args |-> args]}
            /\ calls' = [calls EXCEPT ![c] =
                   [@ EXCEPT !.pc = "tool", !.pending = <<tool, args>>,
                             !.observation = NoObservation]]
            /\ UNCHANGED <<heap, uuids, returned>>
       ELSE \* _arun returns its text without a request
            /\ AfterToolRound(c, FALSE, ToolRun(tool, "no_request"))
            /\ UNCHANGED requests
    /\ UNCHANGED <<sessions, op, nops, nfail, an>>

\* the backend request of the pending tool ends and _arun runs to its
\* return: its text goes back to the LLM (an exception leaving the tool
\* would leave the executor as well and reach line 382)
BackendReply(c, outcome) ==
    /\ calls[c].pc = "tool"
    /\ LET obs == ToolRun(calls[c].pending[1], outcome)
       IN  IF obs.kind = "raise"
           THEN Fail(c, "tool_error")
           ELSE AfterToolRound(c, outcome \in RaisingOutcomes, obs)
    /\ requests' = {r \in requests : r.slot # c}
    /\ UNCHANGED <<sessions, op, nops, nfail, an>>

\* the caller has received the result; the task is over
Finish(c) ==
    /\ calls[c].pc = "done"
    /\ calls' = [calls EXCEPT ![c] = IdleCall]
    /\ UNCHANGED <<sessions, heap, uuids, returned, requests, op, nops, nfail, an>>

\* message texts a client may post to /chat: nothing, blanks only, a word,
\* a word between blanks, 1000 characters, 1001 characters
RawMessages == {"", "   ", "hola", " hola ", "x*1000", "x*1001"}

\* len(v)
MsgLen(m) ==
    CASE m = "" -> 0
      [] m = "   " -> 3
      [] m = "hola" -> 4
      [] m = " hola " -> 6
      [] m = "x*1000" -> 1000
      [] m = "x*1001" -> 1001

\* v.strip()
Strip(m) ==
    CASE m = "   " -> ""
      [] m = " hola " -> "hola"
      [] OTHER -> m

\* ChatRequest.message with the length limits alone
ChatRequestLengthOnly(m) == MsgLen(m) >= 1 /\ MsgLen(m) <= 1000

\* ChatRequest.message: Field(min_length=1, max_length=1000), then
\* validate_message (`if not v.strip(): raise ValueError`)
ChatRequestValid(m) ==
    /\ MsgLen(m) >= 1
    /\ MsgLen(m) <= 1000
    /\ Strip(m) # ""

\* POST /chat up to the first suspension of process_message: a body that
\* fails ChatRequest is answered 422 before the handler runs, otherwise the
\* handler passes the validated (stripped) message on
Chat(c, message, session_id, user_id) ==
    IF ChatRequestValid(message)
    THEN Start(c, Strip(message), session_id, user_id, "none")
    ELSE /\ op' = [name |-> "chat", status |-> 422, message |-> message]
         /\ nops' = nops + 1
         /\ UNCHANGED <<sessions, heap, uuids, returned, calls, requests, nfail, an>>

\* AgentService.get_or_create_session called on its own
GetOrCreateSession(session_id, user_id) ==
    /\ LET g == GetOrCreate(session_id, user_id)
       IN  /\ sessions' = g.sessions
           /\ heap' = g.heap
           /\ uuids' = g.uuids
           /\ op' = [name |-> "get_or_create_session", session_id |-> session_id,
                     user_id |-> user_id, ref |-> g.ref]
    /\ nops' = nops + 1
    /\ UNCHANGED <<returned, calls, requests, nfail, an>>

\* AgentService.clear_session (DELETE /sessions/{session_id})
ClearSession(session_id) ==
    /\ sessions' = ClearedStore(session_id)
    /\ op' = [name |-> "clear_session", session_id |-> session_id]
    /\ nops' = nops + 1
    /\ UNCHANGED <<heap, uuids, returned, calls, requests, nfail, an>>

\* AgentService.get_session_history (GET /sessions/{session_id}/history)
GetSessionHistory(session_id) ==
    /\ op' = [name |-> "get_session_history", session_id |-> session_id,
              messages |-> SessionHistory(session_id)]
    /\ nops' = nops + 1
    /\ UNCHANGED <<sessions, heap, uuids, returned, calls, requests, nfail, an>>

----------------------------------------------------------------------------
(* Follow-up analysis pipeline *)

\* a Python str of n characters (only its length matters to the pipeline)
Text(n) == <<"text", n>>
TextLen(x) == x[2]

\* RespuestaPaciente: the patient's answer inside SeguimientoData
Estados == {"excelente", "bien", "regular", "mal"}
Sintomas == {None, Text(0), Text(50), Text(51)}
Surveys ==
    [estado_paciente : Estados, sintomas_reportados : Sintomas,
     necesita_revision : BOOLEAN, paciente_nombre : {"Ana"}]

\* json.dumps / json.loads: a text is JSON or it is not; loading None is a
\* TypeError, loading a text that is not JSON a JSONDecodeError
JsonDumps(value) == [text |-> "json", value |-> value]
NotJson == [text |-> "prose"]
NoContent == [text |-> "None"]
JsonLoads(text) ==
    IF text = NoContent THEN [ok |-> FALSE, error |-> "TypeError"]
    ELSE IF text.text = "json" THEN [ok |-> TRUE, value |-> text.value]
    ELSE [ok |-> FALSE, error |-> "JSONDecodeError"]

\* JSON values: an object is a function from its keys, anything else is
\* tagged with its type
JsonArray == [type |-> "array"]
IsObject(v) == v # JsonArray

SetKey(d, k, v) == [x \in DOMAIN d \cup {k} |-> IF x = k THEN v ELSE d[x]]
DropKey(d, k) == [x \in DOMAIN d \ {k} |-> d[x]]
\* dict.get(k): None when the key is absent
Get(d, k) == IF k \in DOMAIN d THEN d[k] ELSE "<None>"

\* the JSON objects the model may answer with; probabilities are in tenths
FullObjects ==
    [nivel_urgencia : {"bajo", "medio", "alto", "critico"},
     requiere_atencion : BOOLEAN,
     sentimiento_general : {"positivo", "eufórico"},
     sintomas_detectados : {"llm"},
     recomendacion : {"llm"},
     resumen : {"llm"},
     probabilidad_complicacion : {2, 15},
     necesita_cita_urgente : BOOLEAN]

OptionalKeys ==
    {"nivel_urgencia", "requiere_atencion", "probabilidad_complicacion",
     "sintomas_detectados"}

ModelObjects ==
    FullObjects \cup {DropKey(d, k) : d \in FullObjects, k \in OptionalKeys}

\* what the provider call may end in: an exception, or a completion whose
\* content is None, is not JSON, is JSON but no object, or is an object
ProviderOutcomes ==
    {[kind |-> "raise"], [kind |-> "content", content |-> NoContent],
     [kind |-> "content", content |-> NotJson],
     [kind |-> "content", content |-> JsonDumps(JsonArray)]}
    \cup {[kind |-> "content", content |-> JsonDumps(d)] : d \in ModelObjects}

\* OpenAIService._get_fallback_response
ServiceFallback ==
    JsonDumps([nivel_urgencia |-> "medio", requiere_atencion |-> TRUE,
               sentimiento_general |-> "neutral",
               sintomas_detectados |-> "manual",
               recomendacion |-> "service_fallback",
               resumen |-> "service_fallback",
               probabilidad_complicacion |-> 5,
               necesita_cita_urgente |-> FALSE])

\* OpenAIService.analizar_seguimiento_post_tratamiento: the text returned,
\* or the exception re-raised
AnalizarSeguimiento(outcome) ==
    IF outcome.kind = "raise"
    THEN [ok |-> FALSE, error |-> "provider_error"]
    ELSE LET parsed == JsonLoads(outcome.content)
         IN  IF parsed.ok THEN [ok |-> TRUE, value |-> outcome.content]
             ELSE IF parsed.error = "JSONDecodeError"
             THEN [ok |-> TRUE, value |-> ServiceFallback]
             ELSE [ok |-> FALSE, error |-> parsed.error]

\* the fallback of parsear_respuesta_ia (lines 232-245)
ParseFallback(data) ==
    [nivel_urgencia |-> "medio", requiere_atencion |-> TRUE,
     sentimiento_general |-> "neutral", sintomas_detectados |-> "manual",
     recomendacion |-> "parse_fallback", resumen |-> "parse_fallback",
     probabilidad_complicacion |-> 5,
     necesita_cita_urgente |-> data.necesita_revision]

\* the escalation rules of parsear_respuesta_ia (lines 219-228)
RuleMal(data, d) ==
    IF data.estado_paciente = "mal" /\ Get(d, "nivel_urgencia") = "bajo"
    THEN SetKey(SetKey(d, "nivel_urgencia", "medio"), "requiere_atencion", TRUE)
    ELSE d

RuleMalUrgencyOnly(data, d) ==
    IF data.estado_paciente = "mal" /\ Get(d, "nivel_urgencia") = "bajo"
    THEN SetKey(d, "nivel_urgencia", "medio")
    ELSE d

LongSymptoms(data) ==
    /\ data.sintomas_reportados # None
    /\ TextLen(data.sintomas_reportados) > 0
    /\ TextLen(data.sintomas_reportados) > 50

RuleSintomas(data, d) ==
    IF LongSymptoms(data) /\ Get(d, "nivel_urgencia") = "bajo"
    THEN SetKey(d, "requiere_atencion", TRUE)
    ELSE d

\* the first rule firing on the patient's state alone
RuleMalAnyUrgency(data, d) ==
    IF data.estado_paciente = "mal"
    THEN SetKey(SetKey(d, "nivel_urgencia", "medio"), "requiere_atencion", TRUE)
    ELSE d

\* the rules with `nivel_urgencia == "bajo"` left out of the first
OverridesWheneverMal(data, d) == RuleSintomas(data, RuleMalAnyUrgency(data, d))

\* the second rule assigning the flag instead of raising it
RuleSintomasAssigning(data, d) ==
    SetKey(d, "requiere_atencion",
           LongSymptoms(data) /\ Get(d, "nivel_urgencia") = "bajo")

\* the rules with `requiere_atencion = <condition>` as the second
OverridesAssigningFlag(data, d) == RuleSintomasAssigning(data, RuleMal(data, d))

\* the first rule raising the urgency by one level each time it is applied
RuleMalOneLevelUp(data, d) ==
    IF data.estado_paciente = "mal" /\ Get(d, "nivel_urgencia") \in {"bajo", "medio"}
    THEN SetKey(SetKey(d, "nivel_urgencia",
                       IF Get(d, "nivel_urgencia") = "bajo" THEN "medio" ELSE "alto"),
                "requiere_atencion", TRUE)
    ELSE d

\* the rules with a first rule that climbs
OverridesOneLevelUp(data, d) == RuleSintomas(data, RuleMalOneLevelUp(data, d))

\* the rules without the second one
OverridesWithoutSymptomRule(data, d) == RuleMal(data, d)

\* the rules with line 223 left out
OverridesUrgencyOnly(data, d) == RuleSintomas(data, RuleMalUrgencyOnly(data, d))

\* both rules, in the order of the code
ApplyOverrides(data, d) == RuleSintomas(data, RuleMal(data, d))

\* AnalisisResultado(**d): every field but sintomas_detectados is required,
\* probabilidad_complicacion must lie in [0, 1] (0..10 tenths)
RequiredKeys ==
    {"nivel_urgencia", "requiere_atencion", "sentimiento_general",
     "recomendacion", "resumen", "probabilidad_complicacion",
     "necesita_cita_urgente"}

ModelValidates(d) ==
    /\ RequiredKeys \subseteq DOMAIN d
    /\ d["probabilidad_complicacion"] >= 0
    /\ d["probabilidad_complicacion"] <= 10

AnalisisResultado(d) ==
    [nivel_urgencia |-> d["nivel_urgencia"],
     requiere_atencion |-> d["requiere_atencion"],
     sentimiento_general |-> d["sentimiento_general"],
     sintomas_detectados |->
         IF "sintomas_detectados" \in DOMAIN d THEN d["sintomas_detectados"]
         ELSE "empty",
     recomendacion |-> d["recomendacion"],
     resumen |-> d["resumen"],
     probabilidad_complicacion |-> d["probabilidad_complicacion"],
     necesita_cita_urgente |-> d["necesita_cita_urgente"]]

\* parsear_respuesta_ia: the AnalisisResultado, or the exception that leaves it
ParsearRespuestaIA(respuesta_ia, data) ==
    LET parsed == JsonLoads(respuesta_ia)
    IN  IF ~parsed.ok
        THEN IF parsed.error = "JSONDecodeError"
             THEN [ok |-> TRUE, value |-> ParseFallback(data)]
             ELSE [ok |-> FALSE, error |-> parsed.error]
        ELSE IF ~IsObject(parsed.value)
        THEN \* .get on a list, or AnalisisResultado(**list)
             [ok |-> FALSE, error |-> "not_a_dict"]
        ELSE LET d == ApplyOverrides(data, parsed.value)
             IN  IF ModelValidates(d)
                 THEN [ok |-> TRUE, value |-> AnalisisResultado(d)]
                 ELSE [ok |-> FALSE, error |-> "ValidationError"]

\* the body of analizar_respuesta_seguimiento after the provider call
\* (lines 116-148): the HTTP response, and whether the webhook was scheduled
Analizar(data, outcome) ==
    LET ia == AnalizarSeguimiento(outcome)
    IN  IF ~ia.ok
        THEN [status |-> 500, error |-> ia.error, webhook |-> "none"]
        ELSE LET analisis == ParsearRespuestaIA(ia.value, data)
             IN  IF ~analisis.ok
                 THEN [status |-> 500, error |-> analisis.error, webhook |-> "none"]
                 ELSE [status |-> 200, body |-> analisis.value,
                       webhook |-> "scheduled"]

AnIdle == [pc |-> "idle"]

\* POST /seguimiento/analizar-respuesta up to the provider call
AnalizarStart(data) ==
    /\ an.pc = "idle"
    /\ an' = [pc |-> "llm", data |-> data]
    /\ UNCHANGED agentVars

\* the provider call ends; the handler runs to its return
ProviderReply(outcome) ==
    /\ an.pc = "llm"
    /\ LET r == Analizar(an.data, outcome)
       IN  an' = [pc |-> "responded", data |-> an.data, llm |-> outcome,
                  response |-> [x \in DOMAIN r \ {"webhook"} |-> r[x]],
                  webhook |-> r.webhook]
    /\ UNCHANGED agentVars

WebhookOutcomes == {"200", "500", "transport_error"}

\* enviar_webhook_laravel without its try/except, awaited by the handler: a
\* failed dispatch becomes the answer of the request
WebhookDispatchPropagating(outcome) ==
    /\ an.pc = "responded"
    /\ an.webhook = "scheduled"
    /\ an' = IF outcome = "transport_error"
             THEN [an EXCEPT !.webhook = "raised",
                             !.response = [status |-> 500, error |-> "webhook"]]
             ELSE [an EXCEPT !.webhook = IF outcome = "200" THEN "logged_ok"
                                         ELSE "logged_error"]
    /\ UNCHANGED agentVars

\* enviar_webhook_laravel, run as a background task after the response:
\* every outcome is logged and nothing else
WebhookDispatch(outcome) ==
    /\ an.pc = "responded"
    /\ an.webhook = "scheduled"
    /\ an' = [an EXCEPT !.webhook = IF outcome = "200" THEN "logged_ok"
                                    ELSE "logged_error"]
    /\ UNCHANGED agentVars

\* the request is over; the next one may come
AnalizarEnd ==
    /\ an.pc = "responded"
    /\ an.webhook # "scheduled"
    /\ an' = AnIdle
    /\ UNCHANGED agentVars

----------------------------------------------------------------------------
(* Specifications *)

Init ==
    /\ sessions = NoSessions
    /\ heap = <<>>
    /\ uuids = 0
    /\ returned = {}
    /\ calls = [c \in Slots |-> IdleCall]
    /\ requests = {}
    /\ op = [name |-> "none"]
    /\ nops = 0
    /\ nfail = 0
    /\ an = AnIdle

\* session ids a caller can pass: none, "", a string of its own, or an id
\* a previous response gave it
SessionArgs == {None, EmptyStr} \cup CallerStrs \cup returned

\* ids usable in the path of /sessions/{session_id}
SessionPaths == CallerStrs \cup returned

\* the tools the LLM picks among in the single-caller specification: one
\* with optional fields only, one with a required field, one outside the
\* catalog
ToolsTried == {"buscar_paciente", "consultar_historial_clinico", UnknownTool}

\* the tools the LLM picks among in the concurrent specification: one that
\* always needs the backend, one outside the catalog
ToolsConcurrent == {"consultar_historial_clinico", UnknownTool}

\* the backend outcomes met in the concurrent specification: a body, and a
\* failure of the request (the tool-catalog specification meets them all)
OutcomesTried == {"success", "transport_error"}

\* a new request is served by the first task slot that is free (slot 1
\* when none is, where Start is then disabled)
FreeSlot ==
    IF \E c \in Slots : calls[c].pc = "idle"
    THEN CHOOSE c \in Slots :
             /\ calls[c].pc = "idle"
             /\ \A d \in Slots : calls[d].pc = "idle" => c <= d
    ELSE 1

\* concurrent callers: two tasks, store operations in between
Next ==
    \/ \E m \in UserMsgs, sid \in SessionArgs \ {EmptyStr}, uid \in UserIds :
           nops < MaxOps /\ Start(FreeSlot, m, sid, uid, "none")
    \/ \E c \in Slots, text \in LLMTexts : LLMFinish(c, text)
    \/ \E c \in Slots : LLMRaise(c) /\ UNCHANGED nfail
    \/ \E c \in Slots, tool \in ToolsConcurrent, args \in ArgKinds :
           calls[c].iterations < MaxToolRounds /\ LLMToolCall(c, tool, args)
    \/ \E c \in Slots, outcome \in OutcomesTried : BackendReply(c, outcome)
    \/ \E c \in Slots : Finish(c)
    \/ \E sid \in SessionArgs \ {EmptyStr}, uid \in UserIds :
           nops < MaxOps /\ GetOrCreateSession(sid, uid)
    \/ \E sid \in SessionPaths : nops < MaxOps /\ ClearSession(sid)
    \/ \E sid \in SessionPaths : nops < MaxOps /\ GetSessionHistory(sid)

Spec == Init /\ [][Next]_vars

\* one caller, one call after the other, the tool loop run to its cap
\* (the whole catalog is tried in the tool-catalog specification)
NextSeq ==
    \/ \E m \in UserMsgs, sid \in SessionArgs, uid \in UserIds, ctx \in UserContexts :
           nops < SeqMaxCalls /\ Start(1, m, sid, uid, ctx)
    \/ \E text \in LLMTexts : LLMFinish(1, text)
    \/ LLMRaise(1) /\ UNCHANGED nfail
    \/ \E tool \in ToolsTried, args \in ArgKinds :
           LLMToolCall(1, tool, args)
    \/ \E outcome \in BackendOutcomes : BackendReply(1, outcome)
    \/ Finish(1)

SpecSeq == Init /\ [][NextSeq]_vars

\* one caller whose LLM tries every tool of the catalog, and a name outside
\* it, with every kind of arguments, against every backend outcome
NextTools ==
    \/ \E m \in UserMsgs, sid \in {None} \cup returned :
           nops < ToolMaxCalls /\ Start(1, m, sid, 1, "none")
    \/ \E text \in LLMTexts : LLMFinish(1, text)
    \/ LLMRaise(1) /\ UNCHANGED nfail
    \/ \E tool \in Catalog \cup {UnknownTool}, args \in ArgKinds :
           calls[1].iterations < ToolMaxRounds /\ LLMToolCall(1, tool, args)
    \/ \E outcome \in BackendOutcomes : BackendReply(1, outcome)
    \/ Finish(1)

SpecTools == Init /\ [][NextTools]_vars

\* one caller keeping to one session for many round trips
MemSession == <<"str", 1>>

NextMem ==
    \/ \E m \in UserMsgs :
           nops < MemMaxCalls /\ Start(1, m, MemSession, 0, "none")
    \/ \E text \in LLMTexts : LLMFinish(1, text)
    \/ nfail < MemMaxFail /\ LLMRaise(1) /\ nfail' = nfail + 1
    \/ Finish(1)

SpecMem == Init /\ [][NextMem]_vars

\* one caller working on the store: whole round trips and store operations,
\* one after the other
NextStore ==
    \/ \E m \in UserMsgs, sid \in SessionArgs, uid \in UserIds :
           nops < StoreMaxOps /\ Start(1, m, sid, uid, "none")
    \/ \E text \in LLMTexts : LLMFinish(1, text)
    \/ Finish(1)
    \/ \E sid \in SessionArgs, uid \in UserIds :
           nops < StoreMaxOps /\ calls[1].pc = "idle" /\ GetOrCreateSession(sid, uid)
    \/ \E sid \in SessionPaths :
           nops < StoreMaxOps /\ calls[1].pc = "idle" /\ ClearSession(sid)
    \/ \E sid \in SessionPaths :
           nops < StoreMaxOps /\ calls[1].pc = "idle" /\ GetSessionHistory(sid)

SpecStore == Init /\ [][NextStore]_vars

\* the chat endpoint with one client, one request after the other
NextChat ==
    \/ \E m \in RawMessages, sid \in SessionArgs, uid \in UserIds :
           nops < ChatMaxCalls /\ Chat(1, m, sid, uid)
    \/ \E text \in LLMTexts : LLMFinish(1, text)
    \/ LLMRaise(1) /\ UNCHANGED nfail
    \/ Finish(1)

SpecChat == Init /\ [][NextChat]_vars

\* the analysis endpoint, one request at a time
NextAn ==
    \/ \E data \in Surveys : AnalizarStart(data)
    \/ \E outcome \in ProviderOutcomes : ProviderReply(outcome)
    \/ \E outcome \in WebhookOutcomes : WebhookDispatch(outcome)
    \/ AnalizarEnd

SpecAn == Init /\ [][NextAn]_vars

----------------------------------------------------------------------------
(* Properties of process_message *)

Finished(c) == calls[c].pc = "done"

\* C1: every process_message call returns a session_id under which the
\* conversation can be continued: the returned id is the store's id of the
\* session in which the call's user message was recorded, also for calls
\* that fail and calls made without a session id.
C1_ReturnedIdNamesRecordedSession ==
    \A c \in Slots :
        Finished(c) =>
            /\ calls[c].result.kind = "return"
            /\ calls[c].result.session_id \in DOMAIN sessions
            /\ sessions[calls[c].result.session_id] = calls[c].session

\* C2 as stated: whenever the LLM call, a tool or the backend fails during
\* the call, the result is the fixed apologetic text with an error field in
\* its metadata and the supplied session id, and /chat answers 200.
C2_AnyFailureGivesApology ==
    \A c \in Slots :
        (Finished(c) /\ (calls[c].raised # "none" \/ calls[c].backend_failed)) =>
            /\ calls[c].result.kind = "return"
            /\ calls[c].result.message = ErrorText
            /\ "error" \in DOMAIN calls[c].result.metadata
            /\ (~Falsy(calls[c].session_id) =>
                    calls[c].result.session_id = calls[c].session_id)
            /\ calls[c].http = 200

\* C2 amended: process_message never propagates a failure. Every finished
\* call has a result and /chat answers 200; when an exception reached the
\* try block (the LLM call raised, or a tool input was rejected by its
\* schema) the result is the fixed apologetic text with an error field and
\* the supplied non-empty session id; a backend failure alone is absorbed by
\* the tool and the call returns the executor's answer without error field.
C2_FailuresAreAbsorbed ==
    \A c \in Slots :
        Finished(c) =>
            /\ calls[c].result.kind = "return"
            /\ calls[c].http = 200
            /\ (calls[c].raised # "none" =>
                    /\ calls[c].result.message = ErrorText
                    /\ "error" \in DOMAIN calls[c].result.metadata
                    /\ (~Falsy(calls[c].session_id) =>
                            calls[c].result.session_id = calls[c].session_id))
            /\ (calls[c].raised = "none" =>
                    /\ calls[c].result.message \in LLMTexts \cup {StoppedText}
                    /\ "error" \notin DOMAIN calls[c].result.metadata)

\* a call with a supplied id ended in the except branch, and another ended
\* normally although a backend request of it had failed
C2_Witness ==
    \E c, d \in Slots :
        /\ Finished(c)
        /\ calls[c].raised = "validation_error"
        /\ ~Falsy(calls[c].session_id)
        /\ calls[c].result.session_id = calls[c].session_id
        /\ Finished(d)
        /\ calls[d].raised = "none"
        /\ calls[d].backend_failed
        /\ calls[d].result.message \in LLMTexts

C4_NoRequestForRejectedArgs ==
    /\ \A r \in requests : SchemaAccepts(r.tool, r.args)
    /\ \A c \in Slots :
           calls[c].raised = "validation_error" =>
               ~\E r \in requests : r.slot = c

\* a call whose tool input was rejected has ended, nothing was requested
C4_Witness ==
    \E c \in Slots :
        /\ Finished(c)
        /\ calls[c].raised = "validation_error"
        /\ calls[c].iterations = 0
        /\ requests = {}

\* the tool of the catalog that slot c ran last, with what it gave back
RanTool(c) ==
    /\ calls[c].observation # NoObservation
    /\ calls[c].observation.tool \in Catalog

\* C17 as stated: every execution of a catalog tool, whatever the backend
\* outcome, returns a text and lets no exception escape, and every failure
\* (here only: a non-2xx status, a transport failure) is rendered as a text
\* that opens with the error mark.
C17_EveryFailureIsErrorText ==
    \A c \in Slots :
        /\ calls[c].raised # "tool_error"
        /\ RanTool(c) =>
               /\ calls[c].observation.kind = "text"
               /\ (calls[c].observation.outcome \in GatewayErrors =>
                       calls[c].observation.text = "error")

\* C17 amended: every execution of a catalog tool, whatever the backend
\* outcome, returns a text and lets no exception escape. A non-2xx status
\* and a transport failure are rendered with the error mark by every tool
\* but registrar_interaccion_ia, which renders them with the warning mark;
\* a success=false payload is rendered with the error, the information or
\* the warning mark, depending on the tool, never as a success.
C17_EveryOutcomeIsText ==
    \A c \in Slots :
        /\ calls[c].raised # "tool_error"
        /\ RanTool(c) =>
               /\ calls[c].observation.kind = "text"
               /\ calls[c].observation.text \in {"ok", "error", "info", "warning"}
               /\ (calls[c].observation.outcome \in GatewayErrors =>
                       calls[c].observation.text =
                           IF calls[c].observation.tool = "registrar_interaccion_ia"
                           THEN "warning" ELSE "error")
               /\ (calls[c].observation.outcome = "success_false" =>
                       calls[c].observation.text \in
                           IF calls[c].observation.tool = "registrar_interaccion_ia"
                           THEN {"warning"}
                           ELSE IF calls[c].observation.tool \in InformingTools
                           THEN {"info"} ELSE {"error"})
               /\ (calls[c].observation.outcome = "success" =>
                       calls[c].observation.text = "ok")

\* registrar_interaccion_ia has met a transport failure and has handed its
\* warning text to the loop, which goes on
C17_Witness ==
    \E c \in Slots :
        /\ calls[c].pc = "llm"
        /\ calls[c].observation.kind = "text"
        /\ calls[c].observation.tool = "registrar_interaccion_ia"
        /\ calls[c].observation.outcome = "transport_error"
        /\ calls[c].observation.text = "warning"
        /\ calls[c].raised = "none"

\* C21: every Backend Gateway request ends in exactly one of three ways:
\* the JSON body of a 2xx response, the uniform status error, the uniform
\* transport error.
C21_ThreeGatewayOutcomes ==
    \A c \in Slots :
        (RanTool(c) /\ calls[c].observation.gateway.kind # "none") =>
            \/ calls[c].observation.gateway.kind = "json"
            \/ /\ calls[c].observation.gateway.kind = "raise"
               /\ calls[c].observation.gateway.error \in
                      {"backend_status", "backend_connection"}

\* C22: a tool invocation whose arguments fail the schema does not abort
\* the process_message call into the generic error reply: no call ends in
\* the except branch because a tool input was rejected.
C22_ValidationFailureKeepsLooping ==
    \A c \in Slots :
        ~(/\ Finished(c)
          /\ calls[c].raised = "validation_error"
          /\ calls[c].result.message = ErrorText)

\* C18: during a process_message call only tools of the catalog are run:
\* every backend request in flight and every pending tool belongs to a
\* catalog tool, and a tool name outside the catalog is answered by the
\* executor itself, without a request.
C18_OnlyCatalogToolsRun ==
    /\ \A r \in requests : r.tool \in Catalog
    /\ \A c \in Slots :
           /\ calls[c].pending # <<>> => calls[c].pending[1] \in Catalog
           /\ (calls[c].observation # NoObservation
                  /\ calls[c].observation.tool \notin Catalog) =>
                  /\ calls[c].observation.outcome = "no_request"
                  /\ calls[c].observation.text = "invalid_tool"

\* the LLM has asked for a tool outside the catalog with well-formed
\* arguments; the round is over and nothing was requested
C18_Witness ==
    \E c \in Slots :
        /\ calls[c].pc = "llm"
        /\ calls[c].iterations = 1
        /\ calls[c].observation # NoObservation
        /\ calls[c].observation.tool = UnknownTool
        /\ requests = {}

\* the call in slot c returned the executor's answer with its metadata
Reported(c) ==
    /\ Finished(c)
    /\ calls[c].result.kind = "return"
    /\ "message_count" \in DOMAIN calls[c].result.metadata

\* C14 as stated: calls made one after the other on one session id report
\* message_count 2, 4, 6, ...: the k-th call on the session reports 2 * k.
C14_CountIsTwicePerCall ==
    Reported(1) => calls[1].result.metadata.message_count = 2 * nops

\* C14 amended: calls made one after the other on one session id report a
\* message_count that grows by 2 for every call that returned normally and
\* by 1 for every call that failed in between (its user message stays in
\* the history); with no failed call the k-th call reports 2 * k.
C14_CountTwicePerCallOncePerFailure ==
    Reported(1) => calls[1].result.metadata.message_count = 2 * nops - nfail

\* the second or a later call on the session has reported its count, no
\* call having failed before
C14_Witness ==
    /\ Reported(1)
    /\ nops >= 2
    /\ nfail = 0
    /\ calls[1].result.metadata.message_count = 2 * nops

----------------------------------------------------------------------------
(* Properties of the follow-up analysis *)

Responded == an.pc = "responded"

\* the provider returned a JSON object whose nivel_urgencia is lvl
ModelSaid(lvl) ==
    /\ an.llm.kind = "content"
    /\ JsonLoads(an.llm.content).ok
    /\ IsObject(JsonLoads(an.llm.content).value)
    /\ Get(JsonLoads(an.llm.content).value, "nivel_urgencia") = lvl

LlmObject == JsonLoads(an.llm.content).value

\* C5: malformed (non-JSON) LLM content yields the fixed fallback (medio,
\* requiere_atencion, 0.5) with necesita_cita_urgente equal to the survey's
\* necesita_revision.
C5_MalformedGivesSurveyFlag ==
    (Responded /\ an.llm.kind = "content" /\ an.llm.content = NotJson) =>
        /\ an.response.status = 200
        /\ an.response.body.nivel_urgencia = "medio"
        /\ an.response.body.requiere_atencion = TRUE
        /\ an.response.body.probabilidad_complicacion = 5
        /\ an.response.body.necesita_cita_urgente = an.data.necesita_revision

\* C6: when the provider call raises or returns no content, the caller
\* still receives a valid AnalysisResult (the fallback), not an error.
C6_ProviderFailureGivesFallback ==
    (Responded /\ (an.llm.kind = "raise" \/ an.llm = [kind |-> "content", content |-> NoContent])) =>
        /\ an.response.status = 200
        /\ an.response.body.nivel_urgencia = "medio"
        /\ an.response.body.requiere_atencion = TRUE

\* C7: estado_paciente = "mal" and model urgency "bajo" give a result with
\* nivel_urgencia = "medio" and requiere_atencion = true, whatever the
\* other fields are (whenever a result is returned at all).
C7_MalBajoEscalates ==
    (Responded /\ an.data.estado_paciente = "mal" /\ ModelSaid("bajo")
        /\ an.response.status = 200) =>
        /\ an.response.body.nivel_urgencia = "medio"
        /\ an.response.body.requiere_atencion = TRUE

\* such a survey, with no symptoms reported, and a model answer that said
\* bajo and left requiere_atencion out
C7_Witness ==
    /\ Responded /\ an.data.estado_paciente = "mal" /\ ModelSaid("bajo")
    /\ "requiere_atencion" \notin DOMAIN LlmObject
    /\ an.data.sintomas_reportados = None
    /\ an.response.status = 200
    /\ an.response.body.requiere_atencion = TRUE

\* C8: sintomas_reportados longer than 50 characters and model urgency
\* "bajo" give a result with requiere_atencion = true, also when the "mal"
\* rule has fired on the same result (whenever a result is returned at all).
C8_LongSymptomsBajoNeedsAttention ==
    (Responded /\ an.data.sintomas_reportados # None
        /\ TextLen(an.data.sintomas_reportados) > 50 /\ ModelSaid("bajo")
        /\ an.response.status = 200) =>
        an.response.body.requiere_atencion = TRUE

\* a patient who is not "mal", with 51 characters of symptoms, and a model
\* answer that said bajo and requiere_atencion = false
C8_Witness ==
    /\ Responded /\ an.data.estado_paciente # "mal"
    /\ an.data.sintomas_reportados = Text(51) /\ ModelSaid("bajo")
    /\ "requiere_atencion" \in DOMAIN LlmObject
    /\ LlmObject["requiere_atencion"] = FALSE
    /\ an.response.status = 200
    /\ an.response.body.nivel_urgencia = "bajo"
    /\ an.response.body.requiere_atencion = TRUE

----------------------------------------------------------------------------
(* Properties of the session store *)

Refs == 1 .. Len(heap)

\* the user and assistant messages of a history, as the chat memory holds them
Remembered(messages) ==
    LET kept == SelectSeq(messages, LAMBDA m : m.role \in {ROLE_USER, ROLE_ASSISTANT})
    IN  [i \in 1 .. Len(kept) |->
            [type |-> IF kept[i].role = ROLE_USER THEN "human" ELSE "ai",
             content |-> kept[i].content]]

\* the chat history of session s is the last min(N, window) of the N
\* user/assistant messages appended to it, oldest first
WindowIs(s, window) ==
    LET all == Remembered(s.messages)
        n   == Min(Len(all), window)
    IN  LoadMemory(s) = SubSeq(all, Len(all) - n + 1, Len(all))

\* C9 as stated: the chat history holds the min(N, CONVERSATION_HISTORY_LIMIT)
\* most recent of the N messages appended, oldest first.
C9_WindowOfLimitMessages ==
    \A ref \in Refs : WindowIs(heap[ref], CONVERSATION_HISTORY_LIMIT)

\* C9 amended: the chat history holds the min(N, 2 * CONVERSATION_HISTORY_LIMIT)
\* most recent of the N messages appended, oldest first: the limit counts
\* exchanges (a user message and its answer), not messages.
C9_WindowOfLimitExchanges ==
    \A ref \in Refs : WindowIs(heap[ref], 2 * CONVERSATION_HISTORY_LIMIT)

\* a session with more messages than the window holds, the oldest left out
C9_Witness ==
    \E ref \in Refs :
        /\ Len(heap[ref].messages) > 2 * CONVERSATION_HISTORY_LIMIT
        /\ Len(LoadMemory(heap[ref])) = 2 * CONVERSATION_HISTORY_LIMIT
        /\ \E i \in 1 .. Len(heap[ref].messages) : heap[ref].messages[i].role = ROLE_ASSISTANT

\* this step is a get_or_create_session call on its own
IsGetOrCreateStep == op'.name = "get_or_create_session" /\ nops' = nops + 1

\* C10: for a session id not in the store (and for an absent id),
\* get_or_create_session adds exactly one session, with an empty history
\* and an empty memory buffer, and leaves every other session unchanged.
C10_CreatesOneEmptySession ==
    [][ (IsGetOrCreateStep
            /\ (Falsy(op'.session_id) \/ op'.session_id \notin DOMAIN sessions)) =>
        /\ DOMAIN sessions \subseteq DOMAIN sessions'
        /\ Cardinality(DOMAIN sessions') = Cardinality(DOMAIN sessions) + 1
        /\ \A s \in DOMAIN sessions :
               /\ sessions'[s] = sessions[s]
               /\ heap'[sessions[s]] = heap[sessions[s]]
        /\ \A s \in DOMAIN sessions' \ DOMAIN sessions :
               /\ sessions'[s] = op'.ref
               /\ heap'[sessions'[s]].messages = <<>>
               /\ heap'[sessions'[s]].chat_memory = <<>>
               /\ LoadMemory(heap'[sessions'[s]]) = <<>>
      ]_vars

\* get_or_create_session has just created a session next to an older one
\* that holds messages
C10_Witness ==
    /\ op.name = "get_or_create_session"
    /\ op.ref = Len(heap)
    /\ heap[op.ref].messages = <<>>
    /\ \E s \in DOMAIN sessions :
           sessions[s] # op.ref /\ heap[sessions[s]].messages # <<>>

\* C11: when get_or_create_session is called with an absent session id or
\* with one the store does not know, the session it allocates carries the
\* id generated in that call, a value no caller chose.
C11_AllocatesFreshId ==
    [][ (IsGetOrCreateStep
            /\ (Falsy(op'.session_id) \/ op'.session_id \notin DOMAIN sessions)) =>
        /\ uuids' = uuids + 1
        /\ heap'[op'.ref].session_id = GenerateSessionId
        /\ GenerateSessionId \in DOMAIN sessions'
        /\ op'.session_id \notin DOMAIN sessions'
      ]_vars

\* C12: get_or_create_session with an id the store holds returns the
\* session stored under it and changes nothing: no session object (history,
\* memory buffer, metadata, owning user_id) and not the store, whatever
\* user_id is passed.
C12_ExistingSessionUnchanged ==
    [][ (IsGetOrCreateStep /\ op'.session_id \in DOMAIN sessions) =>
        /\ op'.ref = sessions[op'.session_id]
        /\ sessions' = sessions
        /\ heap' = heap
        /\ ActiveSessionsCount' = ActiveSessionsCount
      ]_vars

\* get_or_create_session has just returned a session that holds messages and
\* belongs to another user than the one passed
C12_Witness ==
    /\ op.name = "get_or_create_session"
    /\ op.session_id \in DOMAIN sessions
    /\ sessions[op.session_id] = op.ref
    /\ heap[op.ref].messages # <<>>
    /\ heap[op.ref].user_id # op.user_id

\* this step is a clear_session call
IsClearStep == op'.name = "clear_session" /\ nops' = nops + 1

\* C13: clear_session on an id the store does not hold changes nothing; on
\* an id it holds it removes that session and no other (the history read
\* back is empty, the active count is one less, every other session is the
\* same object as before, no object is altered); clearing the same id again
\* gives the store the first clearing left.
C13_ClearIsIdempotent ==
    [][ \A id \in SessionPaths :
          (IsClearStep /\ op'.session_id = id) =>
            /\ id \notin DOMAIN sessions => sessions' = sessions
            /\ id \in DOMAIN sessions =>
                   /\ DOMAIN sessions' = DOMAIN sessions \ {id}
                   /\ ActiveSessionsCount' = ActiveSessionsCount - 1
                   /\ \A s \in DOMAIN sessions' : sessions'[s] = sessions[s]
            /\ heap' = heap
            /\ SessionHistory(id)' = <<>>
            /\ ClearedStore(id)' = sessions'
      ]_vars

\* clear_session has just removed a session that held messages, and another
\* session is still in the store
C13_Witness ==
    /\ op.name = "clear_session"
    /\ op.session_id \notin DOMAIN sessions
    /\ \E ref \in Refs :
           /\ heap[ref].session_id = op.session_id
           /\ heap[ref].messages # <<>>
    /\ ActiveSessionsCount >= 1

----------------------------------------------------------------------------
(* Properties of the analysis result *)

\* the provider returned a JSON object
ModelAnswered ==
    /\ an.llm.kind = "content"
    /\ JsonLoads(an.llm.content).ok
    /\ IsObject(JsonLoads(an.llm.content).value)

\* neither escalation rule applies to the survey and the model's urgency
NoOverrideApplies ==
    /\ ~(an.data.estado_paciente = "mal" /\ ModelSaid("bajo"))
    /\ ~(LongSymptoms(an.data) /\ ModelSaid("bajo"))

C16_ResultIsStructurallyValid ==
    (Responded /\ an.response.status = 200) =>
        /\ an.response.body.nivel_urgencia \in {"bajo", "medio", "alto"}
        /\ an.response.body.sentimiento_general \in {"positivo", "neutral", "negativo"}
        /\ an.response.body.probabilidad_complicacion >= 0
        /\ an.response.body.probabilidad_complicacion <= 10

\* C19: the webhook is scheduled only once the analysis result is final (a
\* dispatch exists only for a request answered 200), and no dispatch outcome
\* raises out of enviar_webhook_laravel or changes the answer: every
\* dispatch ends logged and leaves the response as it was.
C19_WebhookNeverAffectsResult ==
    /\ []( ("webhook" \in DOMAIN an /\ an.webhook # "none") =>
              (an.pc = "responded" /\ an.response.status = 200) )
    /\ [][ (an.pc = "responded" /\ an'.pc = "responded") =>
              /\ an.webhook = "scheduled"
              /\ an'.webhook \in {"logged_ok", "logged_error"}
              /\ an'.response = an.response
              /\ an'.data = an.data
          ]_vars

\* a dispatch has failed and is logged; the answer is the 200 it was
C19_Witness ==
    /\ Responded
    /\ an.webhook = "logged_error"
    /\ an.response.status = 200

----------------------------------------------------------------------------
(* Properties of the chat endpoint *)

\* the messages C20 is about: empty, blanks only, or longer than 1000
Rejectable(m) == MsgLen(m) = 0 \/ Strip(m) = "" \/ MsgLen(m) > 1000

\* no call works on a rejectable message, no session holds one, and a
\* request answered by the validation layer was rejectable and got 422
OnlyValidMessagesProcessed ==
    /\ \A c \in Slots :
           calls[c].pc # "idle" =>
               (calls[c].message \in RawMessages /\ ~Rejectable(calls[c].message))
    /\ \A ref \in Refs : \A i \in 1 .. Len(heap[ref].messages) :
           heap[ref].messages[i].role = ROLE_USER =>
               ~Rejectable(heap[ref].messages[i].content)
    /\ op.name = "chat" => (op.status = 422 /\ Rejectable(op.message))

\* C20: a chat request whose message is empty, consists of blanks or is
\* longer than 1000 characters never reaches process_message: no call ever
\* works on such a message and no session holds one; the request is
\* answered 422 and the step creates no session and appends no message.
C20_InvalidMessageIsRejected ==
    /\ []OnlyValidMessagesProcessed
    /\ [][ (op'.name = "chat" /\ nops' = nops + 1) =>
              /\ sessions' = sessions
              /\ heap' = heap
              /\ calls' = calls
          ]_vars

\* a request of blanks only has been answered 422 after an accepted one had
\* left a session with its messages; no call is running
C20_Witness ==
    /\ op.name = "chat"
    /\ op.status = 422
    /\ op.message = "   "
    /\ ActiveSessionsCount = 1
    /\ \A c \in Slots : calls[c].pc = "idle"

----------------------------------------------------------------------------
(* Properties of the escalation overrides *)

\* bajo < medio < alto
Rank(level) == CASE level = "bajo" -> 0 [] level = "medio" -> 1 [] level = "alto" -> 2

\* level a is level b or a higher one
AtLeast(a, b) ==
    \/ a = b
    \/ /\ {a, b} \subseteq {"bajo", "medio", "alto"}
       /\ Rank(a) > Rank(b)

\* C23: the overrides never downgrade: in every result returned, the
\* nivel_urgencia is at least the model's and requiere_atencion is true
\* whenever the model's was.
C23_OverridesNeverDowngrade ==
    (Responded /\ ModelAnswered /\ an.response.status = 200) =>
        /\ AtLeast(an.response.body.nivel_urgencia, LlmObject["nivel_urgencia"])
        /\ ("requiere_atencion" \in DOMAIN LlmObject /\ LlmObject["requiere_atencion"]) =>
               an.response.body.requiere_atencion

\* a patient who is "mal" with short symptoms and a model that said alto
\* and requiere_atencion: both are returned as they came
C23_Witness ==
    /\ Responded /\ ModelAnswered /\ an.response.status = 200
    /\ an.data.estado_paciente = "mal"
    /\ ~LongSymptoms(an.data)
    /\ ModelSaid("alto")
    /\ "requiere_atencion" \in DOMAIN LlmObject
    /\ LlmObject["requiere_atencion"]
    /\ an.response.body.nivel_urgencia = "alto"
    /\ an.response.body.requiere_atencion

\* C24: the overrides are a function of (survey, parsed response) that is
\* idempotent: applied to their own output for the same survey they change
\* nothing, also when that output is the result returned; and the answer
\* of the endpoint is determined by the survey and the provider's outcome.
C24_OverridesAreIdempotent ==
    (Responded /\ ModelAnswered) =>
        /\ ApplyOverrides(an.data, ApplyOverrides(an.data, LlmObject))
               = ApplyOverrides(an.data, LlmObject)
        /\ an.response.status = 200 =>
               /\ ApplyOverrides(an.data, an.response.body) = an.response.body
               /\ an.response.body
                      = AnalisisResultado(ApplyOverrides(an.data, LlmObject))
        /\ an.response.status = Analizar(an.data, an.llm).status

\* both rules have fired on a returned result: the patient is "mal", the
\* symptoms are long, the model said bajo and medio is returned
C24_Witness ==
    /\ Responded /\ ModelAnswered /\ an.response.status = 200
    /\ an.data.estado_paciente = "mal"
    /\ LongSymptoms(an.data)
    /\ ModelSaid("bajo")
    /\ an.response.body.nivel_urgencia = "medio"
    /\ an.response.body # LlmObject

----------------------------------------------------------------------------
(* Properties of the session history *)

IsPrefix(a, b) == Len(a) <= Len(b) /\ SubSeq(b, 1, Len(a)) = a

\* C25: a session's message history is append-only: in every step of any
\* interleaving of process_message calls and store operations, each
\* session object's history before the step is a prefix of its history
\* after it, and an id keeps its session object until clear_session
\* removes it.
C25_HistoryIsAppendOnly ==
    [][ /\ \A ref \in Refs :
               IsPrefix(heap[ref].messages, heap'[ref].messages)
        /\ \A s \in DOMAIN sessions :
               \/ s \in DOMAIN sessions' /\ sessions'[s] = sessions[s]
               \/ op'.name = "clear_session" /\ op'.session_id = s
      ]_vars

\* two calls have put their user messages into one session and one of them
\* has added its answer
C25_Witness ==
    \E s \in DOMAIN sessions :
        /\ Len(heap[sessions[s]].messages) = 3
        /\ heap[sessions[s]].messages[1].role = ROLE_USER
        /\ heap[sessions[s]].messages[2].role = ROLE_USER
        /\ heap[sessions[s]].messages[3].role = ROLE_ASSISTANT

\* all but the last element
Front(seq) == SubSeq(seq, 1, Len(seq) - 1)

\* C26: the chat history given to the LLM for one call holds only the turns
\* that preceded the call: while the only call on a session waits for the
\* LLM, its chat history is the window over the session's history without
\* the message being processed, which is given once, as the input.
C26_HistoryExcludesCurrentMessage ==
    (calls[1].pc = "llm" /\ calls[1].iterations = 0) =>
        /\ calls[1].agent_input.input.text = calls[1].message
        /\ calls[1].agent_input.chat_history =
               LastN(Remembered(Front(heap[calls[1].session].messages)),
                     2 * CONVERSATION_HISTORY_LIMIT)

----------------------------------------------------------------------------
(* Properties of concurrent calls *)

\* how many messages the session of the call in slot c held when the call
\* began: its chat history was loaded right after its own user message
BaseOf(c) == Len(calls[c].agent_input.chat_history) - 1

\* the calls in both slots ran concurrently on one session object (when
\* the later one began, the history held at most the earlier one's user
\* message more than when the earlier one began) and both have returned
\* an answer
BothReturnedOnOneSession ==
    /\ Reported(1) /\ Reported(2)
    /\ calls[1].session = calls[2].session
    /\ calls[1].raised = "none" /\ calls[2].raised = "none"
    /\ BaseOf(1) - BaseOf(2) \in {-1, 0, 1}

\* C27: two calls running on the same session are not excluded from each
\* other and no append is lost: once both have returned successfully the
\* history holds exactly 4 messages more than when the first began (two
\* user messages and two answers), and the counts they report are the last
\* two lengths.
C27_ConcurrentAppendsAreKept ==
    BothReturnedOnOneSession =>
        LET base == Min(BaseOf(1), BaseOf(2))
            h    == heap[calls[1].session].messages
        IN  /\ Len(h) = base + 4
            /\ Len(heap[calls[1].session].chat_memory) = base + 4
            /\ h[base + 1].role = ROLE_USER
            /\ h[base + 2].role = ROLE_USER
            /\ h[base + 3].role = ROLE_ASSISTANT
            /\ h[base + 4].role = ROLE_ASSISTANT
            /\ {calls[1].result.metadata.message_count,
                calls[2].result.metadata.message_count}
                   = {base + 3, base + 4}

\* both user messages came before both answers
C27_Witness ==
    /\ BothReturnedOnOneSession
    /\ Len(heap[calls[1].session].messages) = 4
    /\ heap[calls[1].session].messages[2].role = ROLE_USER
    /\ heap[calls[1].session].messages[3].role = ROLE_ASSISTANT
    /\ calls[2].result.metadata.message_count = 3

\* C28: whenever a process_message call returns successfully, the
\* session_id it returns is in the store, names the session the call
\* worked on, and that session's history ends with the answer returned,
\* also when clear_session ran while the call was suspended.
C28_ReturnedSessionIsStored ==
    [][ \A c \in Slots :
          (calls[c].pc # "done" /\ calls'[c].pc = "done"
              /\ calls'[c].raised = "none") =>
            /\ calls'[c].result.session_id \in DOMAIN sessions'
            /\ sessions'[calls'[c].result.session_id] = calls'[c].session
            /\ heap'[calls'[c].session].messages # <<>>
            /\ heap'[calls'[c].session].messages[Len(heap'[calls'[c].session].messages)]
                   = [role |-> ROLE_ASSISTANT, content |-> calls'[c].result.message]
      ]_vars

\* C29: sessions are isolated: in every step, a session object changes
\* only by a call that works on that session's id, and an id loses or
\* changes its object only by clear_session on that id.
C29_SessionsAreIsolated ==
    [][ /\ \A ref \in Refs :
               heap'[ref] # heap[ref] =>
                   \E c \in Slots :
                       /\ calls'[c] # calls[c]
                       /\ calls'[c].session = ref
                       /\ (Falsy(calls'[c].session_id)
                              \/ calls'[c].session_id = heap[ref].session_id)
        /\ \A s \in DOMAIN sessions :
               \/ s \in DOMAIN sessions' /\ sessions'[s] = sessions[s]
               \/ op'.name = "clear_session" /\ op'.session_id = s /\ nops' = nops + 1
      ]_vars

\* two sessions with different ids, one holding a whole round trip, the
\* other the user message of a call that is still running
C29_Witness ==
    \E s, t \in DOMAIN sessions :
        /\ s # t
        /\ sessions[s] # sessions[t]
        /\ Len(heap[sessions[s]].messages) = 2
        /\ Len(heap[sessions[t]].messages) = 1
        /\ \E c \in Slots : calls[c].pc = "llm" /\ calls[c].session = sessions[t]

\* the call in slot 1 has ended in the except branch
FailedCall == Finished(1) /\ calls[1].raised # "none"

\* C30: a call that fails after its session was resolved is not rolled
\* back: the session's history and memory buffer hold, beyond what they
\* held before the call, the call's user message and no answer, and the
\* session is still in the store.
C30_FailedCallIsNotRolledBack ==
    FailedCall =>
        LET s == heap[calls[1].session]
        IN  /\ Len(s.messages) = BaseOf(1) + 1
            /\ s.messages[Len(s.messages)]
                   = [role |-> ROLE_USER, content |-> calls[1].message]
            /\ s.chat_memory = calls[1].agent_input.chat_history
            /\ s.session_id \in DOMAIN sessions
            /\ sessions[s.session_id] = calls[1].session
            /\ ActiveSessionsCount >= 1

\* a call made without a session id has failed: the session it created
\* holds the user message alone and is the one active session
C30_Witness ==
    /\ FailedCall
    /\ calls[1].session_id = None
    /\ calls[1].raised = "llm_error"
    /\ ActiveSessionsCount = 1
    /\ Len(heap[calls[1].session].messages) = 1

====
